---- MODULE Spec2Model ----
(***************************************************************************)
(* A model of the two MCP servers of mcp-for-embedded:                     *)
(*   vehicle_gateway.py  CAN frame reading and decoding, publish_telemetry *)
(*                       and the platform dispatch of publish_sensor_data *)
(*   iot_demo.py         elicit_parameters, discover_protocols and the     *)
(*                       publish_sensor_data with elicitation              *)
(* Each tool is a small state machine of its own; one specification per    *)
(* tool keeps the variables of the other tools at rest.                    *)
(***************************************************************************)
EXTENDS Integers, Sequences, FiniteSets, Bags, TLC

VARIABLES
    \* read_sensor_data (vehicle_gateway.py)
    pending,        \* what can_bus.recv will hand over: <<>> (None) or <<frame>>
    msg,            \* the local msg of read_sensor_data
    dpc,            \* position in read_sensor_data
    dres,           \* its return value, or the exception it raised
    \* the shared bus handle under concurrent tool calls
    syncInThread,   \* whether the server runs a synchronous tool on a worker thread
    rxq,            \* frames queued on the socket, oldest first
    arrived,        \* number of frames that arrived so far
    cpc,            \* position of each tool invocation
    ctool,          \* the tool each invocation runs
    cgot,           \* what recv returned to each invocation
    \* discover_protocols (iot_demo.py)
    ppc,            \* position in discover_protocols
    pathIdx,        \* index of the description path the for loop is at
    supported,      \* the local list supported
    succeeded,      \* history: tags whose probe succeeded in this call
    someFailed,     \* history: some probe of this call failed or timed out
    allFailed,      \* history: every probe of this call so far failed or timed out
    attempted,      \* history: number of probes attempted in this call
    pres,           \* the returned "protocols" list, as a bag
    ncalls,         \* calls started so far
    prevAllFailed,  \* history: every probe of the previous call failed
    prevProtocols,  \* history: the previous call's "protocols"
    \* elicit_parameters (iot_demo.py)
    task, params, missing, epc, eres,
    \* publish_sensor_data (both files)
    impl,           \* which file's publish_sensor_data
    via,            \* "tool": through the request model; "direct": the function body
    request, upc, ures, sinkCalls,
    \* publish_telemetry (vehicle_gateway.py)
    protocol, platform, telemetry_data, resp, tpc, tres

decVars == <<pending, msg, dpc, dres>>
busVars == <<syncInThread, rxq, arrived, cpc, ctool, cgot>>
prbVars == <<ppc, pathIdx, supported, succeeded, someFailed, allFailed, attempted,
             pres, ncalls, prevAllFailed, prevProtocols>>
eliVars == <<task, params, missing, epc, eres>>
pubVars == <<impl, via, request, upc, ures, sinkCalls>>
telVars == <<protocol, platform, telemetry_data, resp, tpc, tres>>
vars == <<decVars, busVars, prbVars, eliVars, pubVars, telVars>>

\* Python's None for an optional value: the empty sequence; Some(v) is <<v>>.
None == <<>>
Some(v) == <<v>>
IsNone(o) == o = <<>>
Val(o) == o[1]

(***************************************************************************)
(* read_sensor_data: receive one frame, decode it by arbitration id.       *)
(***************************************************************************)
ID_COMPOSITE == 256
ID_SPEED == 257
ID_RPM == 258
ID_FUEL == 259

\* Largest payload length of the modelled frames (a CAN frame holds up to 8).
MaxDlc == 4
\* Payload byte values and arbitration ids the frames are drawn from.
ByteVals == {0, 5, 10, 20, 255}
CanIds == {255, ID_COMPOSITE, ID_SPEED, ID_RPM, ID_FUEL, 260}

RECURSIVE SeqsUpTo(_, _)
SeqsUpTo(S, n) ==
    IF n = 0 THEN {<<>>}
    ELSE LET shorter == SeqsUpTo(S, n - 1)
         IN  shorter \cup {Append(s, x) : s \in {t \in shorter : Len(t) = n - 1}, x \in S}

Frames == [arbitration_id : CanIds, data : SeqsUpTo(ByteVals, MaxDlc)]

\* msg.data[i] with Python's 0-based index; InRange is the bound bytearray checks.
InRange(data, i) == i < Len(data)
DataAt(data, i) == data[i + 1]

\* "<label>{}".format(value): the label and the formatted number.
Format(label, value) == [text |-> label, value |-> value]
\* An uncaught IndexError raised by msg.data[i].
IndexError(i) == [raised |-> "IndexError", index |-> i]
\* json.dumps of a dict: its key/value pairs in insertion order.
JsonDumps(pairs) == [json |-> pairs]
Pair(k, v) == [key |-> k, value |-> v]

\* The single-value branch, with byte 1 formatted in place of byte 0.
SingleMut(label, data) ==
    IF InRange(data, 1) THEN Format(label, DataAt(data, 1))
    ELSE IF InRange(data, 0) THEN Format(label, DataAt(data, 0))
    ELSE IndexError(0)
Single(label, data) ==
    IF InRange(data, 0) THEN Format(label, DataAt(data, 0)) ELSE IndexError(0)

\* The composite branch with rpm and fuel read from each other's byte.
CompositeMut(data) ==
    IF ~InRange(data, 0) THEN IndexError(0)
    ELSE IF ~InRange(data, 1) THEN IndexError(1)
    ELSE IF ~InRange(data, 2) THEN IndexError(2)
    ELSE JsonDumps(<<Pair("speed", DataAt(data, 0)), Pair("rpm", DataAt(data, 2)),
                     Pair("fuel", DataAt(data, 1))>>)
\* The dict literal evaluates msg.data[0], msg.data[1], msg.data[2] in order.
Composite(data) ==
    IF ~InRange(data, 0) THEN IndexError(0)
    ELSE IF ~InRange(data, 1) THEN IndexError(1)
    ELSE IF ~InRange(data, 2) THEN IndexError(2)
    ELSE JsonDumps(<<Pair("speed", DataAt(data, 0)), Pair("rpm", DataAt(data, 1)),
                     Pair("fuel", DataAt(data, 2))>>)

DecodeFrame(m) ==
    IF m.arbitration_id = ID_SPEED THEN Single("Speed is ", m.data)
    ELSE IF m.arbitration_id = ID_RPM THEN Single("RPM is ", m.data)
    ELSE IF m.arbitration_id = ID_FUEL THEN Single("Fuel level is ", m.data)
    ELSE IF m.arbitration_id = ID_COMPOSITE THEN Composite(m.data)
    ELSE [text |-> "Invalid CAN Frame"]

Unset == [unset |-> TRUE]

InitDecode ==
    /\ pending \in {None} \cup {Some(f) : f \in Frames}
    /\ msg = None
    /\ dpc = "recv"
    /\ dres = Unset

\* The other tools' variables, untouched by a step of read_sensor_data.
OnlyDecode == UNCHANGED <<busVars, prbVars, eliVars, pubVars, telVars>>

IdleDecode ==
    /\ pending = None
    /\ msg = None
    /\ dpc = "idle"
    /\ dres = Unset

\* msg = can_bus.recv(timeout): a frame, and on to the decoding.
RecvFrame ==
    /\ dpc = "recv"
    /\ ~IsNone(pending)
    /\ msg' = pending
    /\ dpc' = "decode"
    /\ UNCHANGED <<pending, dres>>
    /\ OnlyDecode

\* msg is None: return {"status": "timeout"}.
RecvTimeout ==
    /\ dpc = "recv"
    /\ IsNone(pending)
    /\ msg' = None
    /\ dres' = [status |-> "timeout"]
    /\ dpc' = "done"
    /\ UNCHANGED pending
    /\ OnlyDecode

\* The if/elif chain on can_id.
Decode ==
    /\ dpc = "decode"
    /\ dres' = DecodeFrame(Val(msg))
    /\ dpc' = "done"
    /\ UNCHANGED <<pending, msg>>
    /\ OnlyDecode

NextDecode == RecvFrame \/ RecvTimeout \/ Decode

(***************************************************************************)
(* The shared bus handle: can_bus is opened once at import and every       *)
(* invocation of read_sensor_data calls can_bus.recv on it.                *)
(***************************************************************************)
\* Invocations and bus frames of the concurrent model.
MaxCalls == 2
MaxFrames == 2
Calls == 1 .. MaxCalls

\* The names vehicle_gateway.py binds at module level by its imports.
ModuleNames == {"FastMCP", "Optional", "Literal", "BaseModel", "datetime", "can", "json"}

InRecv(c) == cpc[c] \in {"recv_on_loop", "recv_on_worker"}
\* The event loop runs one handler at a time and a blocking recv holds it.
LoopFree == \A d \in Calls : cpc[d] # "recv_on_loop"

OnlyBus == UNCHANGED <<decVars, prbVars, eliVars, pubVars, telVars>>

InitBus ==
    /\ syncInThread \in BOOLEAN
    /\ rxq = <<>>
    /\ arrived = 0
    /\ cpc = [c \in Calls |-> "idle"]
    /\ ctool = [c \in Calls |-> "none"]
    /\ cgot = [c \in Calls |-> None]

IdleBus ==
    /\ syncInThread = FALSE
    /\ rxq = <<>>
    /\ arrived = 0
    /\ cpc = [c \in Calls |-> "idle"]
    /\ ctool = [c \in Calls |-> "none"]
    /\ cgot = [c \in Calls |-> None]

\* A frame reaches the socket's receive queue.
FrameArrives ==
    /\ arrived < MaxFrames
    /\ arrived' = arrived + 1
    /\ rxq' = Append(rxq, arrived + 1)
    /\ UNCHANGED <<syncInThread, cpc, ctool, cgot>>
    /\ OnlyBus

\* A read_sensor_data tool call starts and enters can_bus.recv; nothing in the
\* function guards the handle.
InvokeRead(c) ==
    /\ cpc[c] = "idle"
    /\ LoopFree
    /\ ctool' = [ctool EXCEPT ![c] = "read_sensor_data"]
    /\ cpc' = [cpc EXCEPT ![c] = IF syncInThread THEN "recv_on_worker" ELSE "recv_on_loop"]
    /\ UNCHANGED <<syncInThread, rxq, arrived, cgot>>
    /\ OnlyBus

\* A can_read_callback tool call: anyio.to_thread.run_sync(read_sensor_data, 2000)
\* looks anyio up in the module's names first.
InvokeCallback(c) ==
    /\ cpc[c] = "idle"
    /\ LoopFree
    /\ ctool' = [ctool EXCEPT ![c] = "can_read_callback"]
    /\ cpc' = [cpc EXCEPT ![c] = IF "anyio" \in ModuleNames THEN "recv_on_worker"
                                 ELSE "NameError"]
    /\ UNCHANGED <<syncInThread, rxq, arrived, cgot>>
    /\ OnlyBus

\* can_bus.recv returns the oldest queued frame to one of the waiting callers.
RecvDeliver(c) ==
    /\ InRecv(c)
    /\ rxq # <<>>
    /\ cgot' = [cgot EXCEPT ![c] = Some(Head(rxq))]
    /\ rxq' = Tail(rxq)
    /\ cpc' = [cpc EXCEPT ![c] = "done"]
    /\ UNCHANGED <<syncInThread, arrived, ctool>>
    /\ OnlyBus

\* can_bus.recv returns None after the timeout with no frame queued.
RecvExpire(c) ==
    /\ InRecv(c)
    /\ rxq = <<>>
    /\ cpc' = [cpc EXCEPT ![c] = "timeout"]
    /\ UNCHANGED <<syncInThread, rxq, arrived, ctool, cgot>>
    /\ OnlyBus

NextBus ==
    \/ FrameArrives
    \/ \E c \in Calls : InvokeRead(c)
    \/ \E c \in Calls : InvokeCallback(c)
    \/ \E c \in Calls : RecvDeliver(c)
    \/ \E c \in Calls : RecvExpire(c)

(***************************************************************************)
(* elicit_parameters (iot_demo.py)                                         *)
(***************************************************************************)
Tasks == {"publish_sensor_data", "read_sensor_data"}
ParamKeys == {"platform", "target", "sensor_data", "api_key"}

\* The prompts, in the order the function tests the keys.
PROMPT_PLATFORM == "Which IoT platform should be used?"
PROMPT_TARGET == "Provide the endpoint/broker/channel ID."
PROMPT_SENSOR_DATA == "Provide sensor_data (temperature, humidity, etc.)"

\* The test of one key, inverted: the prompt is appended when the key is given.
AskMut(key, prompt, given, sofar) ==
    IF key \in given THEN Append(sofar, prompt) ELSE sofar
\* if key not in params: missing.append(prompt)
Ask(key, prompt, given, sofar) ==
    IF key \notin given THEN Append(sofar, prompt) ELSE sofar

OnlyElicit == UNCHANGED <<decVars, busVars, prbVars, pubVars, telVars>>

InitElicit ==
    /\ task \in Tasks
    /\ params \in SUBSET ParamKeys
    /\ missing = <<>>
    /\ epc = "task"
    /\ eres = Unset

IdleElicit ==
    /\ task = "publish_sensor_data"
    /\ params = {}
    /\ missing = <<>>
    /\ epc = "idle"
    /\ eres = Unset

\* if task == "publish_sensor_data": taken.
TaskKnown ==
    /\ epc = "task"
    /\ task = "publish_sensor_data"
    /\ epc' = "platform"
    /\ UNCHANGED <<task, params, missing, eres>>
    /\ OnlyElicit

\* Any other task name skips the three tests.
TaskUnknown ==
    /\ epc = "task"
    /\ task # "publish_sensor_data"
    /\ epc' = "return"
    /\ UNCHANGED <<task, params, missing, eres>>
    /\ OnlyElicit

CheckPlatform ==
    /\ epc = "platform"
    /\ missing' = Ask("platform", PROMPT_PLATFORM, params, missing)
    /\ epc' = "target"
    /\ UNCHANGED <<task, params, eres>>
    /\ OnlyElicit

CheckTarget ==
    /\ epc = "target"
    /\ missing' = Ask("target", PROMPT_TARGET, params, missing)
    /\ epc' = "sensor_data"
    /\ UNCHANGED <<task, params, eres>>
    /\ OnlyElicit

CheckSensorData ==
    /\ epc = "sensor_data"
    /\ missing' = Ask("sensor_data", PROMPT_SENSOR_DATA, params, missing)
    /\ epc' = "return"
    /\ UNCHANGED <<task, params, eres>>
    /\ OnlyElicit

ElicitReturn ==
    /\ epc = "return"
    /\ eres' = [task |-> task, missing_parameters |-> missing,
                complete |-> (Len(missing) = 0)]
    /\ epc' = "done"
    /\ UNCHANGED <<task, params, missing>>
    /\ OnlyElicit

NextElicit ==
    \/ TaskKnown
    \/ TaskUnknown
    \/ CheckPlatform
    \/ CheckTarget
    \/ CheckSensorData
    \/ ElicitReturn

(***************************************************************************)
(* discover_protocols (iot_demo.py): eight probes in sequence, each inside *)
(* its own try/except.                                                     *)
(***************************************************************************)
\* Calls of discover_protocols in one run.
MaxDiscoverCalls == 2

Paths == <<"/swagger.json", "/openapi.json", "/api", "/api/docs">>
PORT_MQTT == 1883
PORT_MQTTS == 8883
PORT_COAP == 5683
Tags == {"http-rest", "openapi-rest", "mqtt", "mqtts", "coap"}
NumProbes == 1 + Len(Paths) + 3

\* What one HTTP request can do: answer with a status, raise, or time out
\* (requests raises Timeout); and what one TCP connect can do.
HttpOutcomes == {"200", "404", "exception", "timeout"}
TcpOutcomes == {"connected", "refused", "timeout"}
Raises(o) == o \in {"exception", "refused", "timeout"}

\* Whether a probe of the given kind found its protocol at the endpoint: an
\* HTTP answer of any status to OPTIONS, status 200 to a description GET, an
\* established TCP connection.
ProbeSucceeded(kind, o) ==
    CASE kind = "options" -> o \in {"200", "404"}
      [] kind = "get" -> o = "200"
      [] kind = "tcp" -> o = "connected"

\* A handler that lets a timeout through.
ExceptCatchesMut(o) == o # "timeout"
\* The bare except: of every probe catches whatever the probe raised.
ExceptCatches(o) == TRUE

\* list(set(supported)): each element once, in no particular order.
ListSet(sup) == SetToBag({sup[i] : i \in 1 .. Len(sup)})

\* port -> the tag appended when port_open(hostname, port) is true.
TagOfPort(port) ==
    IF port = PORT_MQTT THEN "mqtt" ELSE IF port = PORT_MQTTS THEN "mqtts" ELSE "coap"

OnlyProbe == UNCHANGED <<decVars, busVars, eliVars, pubVars, telVars>>

InitProbe ==
    /\ ppc = "options"
    /\ pathIdx = 1
    /\ supported = <<>>
    /\ succeeded = {}
    /\ someFailed = FALSE
    /\ allFailed = TRUE
    /\ attempted = 0
    /\ pres = EmptyBag
    /\ ncalls = 1
    /\ prevAllFailed = FALSE
    /\ prevProtocols = EmptyBag

IdleProbe ==
    /\ ppc = "idle"
    /\ pathIdx = 1
    /\ supported = <<>>
    /\ succeeded = {}
    /\ someFailed = FALSE
    /\ allFailed = TRUE
    /\ attempted = 0
    /\ pres = EmptyBag
    /\ ncalls = 0
    /\ prevAllFailed = FALSE
    /\ prevProtocols = EmptyBag

\* What the function itself tests before it appends a tag.
\* requests.options returned (whatever the status): the append after it runs.
OptionsResponded(o) == ~Raises(o)
\* r.status_code == 200
StatusIs200(o) == o = "200"
\* port_open: True after create_connection and close, False from its except.
PortOpen(o) == o = "connected"

\* One probe: found is the function's own test, next where it goes on. The
\* history variables record what the probe did, by kind of probe.
ProbeStep(o, kind, found, tag, next) ==
    /\ attempted' = attempted + 1
    /\ someFailed' = (someFailed \/ Raises(o))
    /\ allFailed' = (allFailed /\ Raises(o))
    /\ succeeded' = IF ProbeSucceeded(kind, o) THEN succeeded \cup {tag} ELSE succeeded
    /\ IF Raises(o) /\ ~ExceptCatches(o)
       THEN ppc' = "raised" /\ supported' = supported
       ELSE /\ ppc' = next
            /\ supported' = IF found THEN Append(supported, tag) ELSE supported
    /\ UNCHANGED <<pres, ncalls, prevAllFailed, prevProtocols>>
    /\ OnlyProbe

\* requests.options(endpoint, timeout=3): any response marks http-rest.
ProbeOptions(o) ==
    /\ ppc = "options"
    /\ ProbeStep(o, "options", OptionsResponded(o), "http-rest", "get")
    /\ pathIdx' = 1

\* requests.get(endpoint + path, timeout=3): status 200 marks openapi-rest.
ProbeGet(o) ==
    /\ ppc = "get"
    /\ ProbeStep(o, "get", StatusIs200(o), "openapi-rest",
                 IF pathIdx = Len(Paths) THEN "mqtt" ELSE "get")
    /\ pathIdx' = IF pathIdx = Len(Paths) THEN pathIdx ELSE pathIdx + 1

\* if port_open(hostname, port): supported.append(tag)
ProbePort(o, at, port, next) ==
    /\ ppc = at
    /\ ProbeStep(o, "tcp", PortOpen(o), TagOfPort(port), next)
    /\ UNCHANGED pathIdx

ProbeMqtt(o) == ProbePort(o, "mqtt", PORT_MQTT, "mqtts")
ProbeMqtts(o) == ProbePort(o, "mqtts", PORT_MQTTS, "coap")
ProbeCoap(o) == ProbePort(o, "coap", PORT_COAP, "return")

\* return {"endpoint": endpoint, "protocols": list(set(supported))}
ProbeReturn ==
    /\ ppc = "return"
    /\ pres' = ListSet(supported)
    /\ ppc' = "done"
    /\ UNCHANGED <<pathIdx, supported, succeeded, someFailed, allFailed, attempted,
                   ncalls, prevAllFailed, prevProtocols>>
    /\ OnlyProbe

\* The tool is called again; supported is a fresh local list.
DiscoverAgain ==
    /\ ppc = "done"
    /\ ncalls < MaxDiscoverCalls
    /\ ncalls' = ncalls + 1
    /\ prevAllFailed' = allFailed
    /\ prevProtocols' = pres
    /\ ppc' = "options"
    /\ pathIdx' = 1
    /\ supported' = <<>>
    /\ succeeded' = {}
    /\ someFailed' = FALSE
    /\ allFailed' = TRUE
    /\ attempted' = 0
    /\ pres' = EmptyBag
    /\ OnlyProbe

NextProbe ==
    \/ \E o \in HttpOutcomes : ProbeOptions(o)
    \/ \E o \in HttpOutcomes : ProbeGet(o)
    \/ \E o \in TcpOutcomes : ProbeMqtt(o)
    \/ \E o \in TcpOutcomes : ProbeMqtts(o)
    \/ \E o \in TcpOutcomes : ProbeCoap(o)
    \/ ProbeReturn
    \/ DiscoverAgain

(***************************************************************************)
(* publish_sensor_data: the request model's validation, then the body of   *)
(* iot_demo.py (elicitation, mock publish) or of vehicle_gateway.py        *)
(* (dispatch to a sink).                                                   *)
(***************************************************************************)
Impls == {"iot_demo", "vehicle_gateway"}
\* The platforms of vehicle_gateway's Literal, and one outside it.
KnownPlatforms == {"thingsboard", "thingspeak", "custom_rest", "custom_mqtt"}
PlatformInputs == KnownPlatforms \cup {"aws_iot"}
TargetInputs == {"tb.example/api/v1", "broker:1883"}
KeyInputs == {"tok"}

\* SensorData of each file: every field Optional with default None.
VGFields == {"speed", "rpm", "fuel", "latitude", "longitude", "timestamp"}
DemoFields == {"temperature", "humidity", "pressure", "latitude", "longitude", "timestamp"}
SensorData(fields, given) ==
    [f \in fields |-> IF f \in DOMAIN given THEN Some(given[f]) ELSE None]
SensorInputs(i) ==
    IF i = "vehicle_gateway"
    THEN {SensorData(VGFields, <<>>),
          SensorData(VGFields, [speed |-> 10, rpm |-> 20, fuel |-> 5])}
    ELSE {SensorData(DemoFields, <<>>),
          SensorData(DemoFields, [temperature |-> 36, humidity |-> 40])}

Opt(S) == {None} \cup {Some(x) : x \in S}
Requests(i) ==
    [platform : Opt(PlatformInputs), target : Opt(TargetInputs),
     api_key : Opt(KeyInputs), sensor_data : Opt(SensorInputs(i))]

\* sensor_data.dict(): every field, None kept.
Dict(sd) == sd
\* sensor_data.dict(exclude_none=True): the fields that hold a value.
DictExcludeNone(sd) == [f \in {g \in DOMAIN sd : ~IsNone(sd[g])} |-> Val(sd[f])]

\* The request models. A field annotated str or SensorData takes no None and has
\* no default; api_key is Optional[str]. vehicle_gateway narrows platform to a
\* Literal of the four platforms.
Validates(i, r) ==
    /\ ~IsNone(r.target)
    /\ ~IsNone(r.sensor_data)
    /\ IF i = "vehicle_gateway"
       THEN r.platform \in {Some(q) : q \in KnownPlatforms}
       ELSE ~IsNone(r.platform)

\* str() of an optional string inside an f-string.
Str(o) == IF IsNone(o) THEN "None" ELSE Val(o)
Lit(t) == [text |-> t]
Shown(o) == [text |-> Str(o)]

\* iot_demo.py: required = ["platform", "target", "sensor_data"];
\* missing = [p for p in required if getattr(request, p) is None]
Required == <<"platform", "target", "sensor_data">>
MissingOf(r) == SelectSeq(Required, LAMBDA q : IsNone(r[q]))

PublishDemoBody(r) ==
    IF MissingOf(r) # <<>>
    THEN [status |-> "needs_elicitation", missing_parameters |-> MissingOf(r)]
    ELSE [status |-> "success",
          message |-> <<Lit("Published to "), Shown(r.platform)>>,
          data |-> Dict(Val(r.sensor_data))]

\* The dispatch with custom_rest sent to the MQTT sink.
SinkForMut(q) ==
    IF q = Some("thingsboard") THEN "send_to_thingsboard"
    ELSE IF q = Some("thingspeak") THEN "send_to_thingspeak"
    ELSE IF q = Some("custom_rest") THEN "send_to_mqtt"
    ELSE IF q = Some("custom_mqtt") THEN "send_to_mqtt"
    ELSE "none"
\* vehicle_gateway.py: the chain of if request.platform == ...: return send_to_...
SinkFor(q) ==
    IF q = Some("thingsboard") THEN "send_to_thingsboard"
    ELSE IF q = Some("thingspeak") THEN "send_to_thingspeak"
    ELSE IF q = Some("custom_rest") THEN "send_to_rest"
    ELSE IF q = Some("custom_mqtt") THEN "send_to_mqtt"
    ELSE "none"

\* The arguments publish_sensor_data hands to each sink.
SinkCall(sink, r, data) ==
    IF sink = "send_to_mqtt"
    THEN [sink |-> sink, target |-> r.target, data |-> data]
    ELSE [sink |-> sink, target |-> r.target, api_key |-> r.api_key, data |-> data]

\* The f-string each mock sink returns.
SinkReturn(c) ==
    IF c.sink = "send_to_thingsboard"
    THEN <<Lit("[Mock] Sent to "), Lit("ThingsBoard"), Lit(" at "), Shown(c.target),
           Lit(" with token="), Shown(c.api_key), Lit(": "), [repr |-> c.data]>>
    ELSE IF c.sink = "send_to_thingspeak"
    THEN <<Lit("[Mock] Sent to "), Lit("ThingSpeak"), Lit(" channel "), Shown(c.target),
           Lit(" with key="), Shown(c.api_key), Lit(": "), [repr |-> c.data]>>
    ELSE IF c.sink = "send_to_rest"
    THEN <<Lit("[Mock] Sent REST POST to "), Shown(c.target), Lit(" api_key="),
           Shown(c.api_key), Lit(": "), [repr |-> c.data]>>
    ELSE <<Lit("[Mock] Published "), Lit("MQTT"), Lit(" to "), Shown(c.target),
           Lit(": "), [repr |-> c.data]>>

OnlyPublish == UNCHANGED <<decVars, busVars, prbVars, eliVars, telVars>>

InitPublish ==
    /\ impl \in Impls
    /\ via \in {"tool", "direct"}
    /\ request \in Requests(impl)
    /\ upc = IF via = "tool" THEN "validate" ELSE "body"
    /\ ures = Unset
    /\ sinkCalls = <<>>

IdlePublish ==
    /\ impl = "iot_demo"
    /\ via = "tool"
    /\ request = [platform |-> None, target |-> None, api_key |-> None,
                  sensor_data |-> None]
    /\ upc = "idle"
    /\ ures = Unset
    /\ sinkCalls = <<>>

\* The tool call's arguments are accepted by IoTRequest: the body runs.
ValidateAccept ==
    /\ upc = "validate"
    /\ Validates(impl, request)
    /\ upc' = "body"
    /\ UNCHANGED <<impl, via, request, ures, sinkCalls>>
    /\ OnlyPublish

\* They are not: the call fails before the function is entered.
ValidateReject ==
    /\ upc = "validate"
    /\ ~Validates(impl, request)
    /\ ures' = [raised |-> "ValidationError"]
    /\ upc' = "rejected"
    /\ UNCHANGED <<impl, via, request, sinkCalls>>
    /\ OnlyPublish

\* iot_demo.publish_sensor_data
PublishDemo ==
    /\ upc = "body"
    /\ impl = "iot_demo"
    /\ ures' = PublishDemoBody(request)
    /\ upc' = "done"
    /\ UNCHANGED <<impl, via, request, sinkCalls>>
    /\ OnlyPublish

\* vehicle_gateway.publish_sensor_data: data = request.sensor_data.dict(...), then
\* the first matching platform's sink is called and its string returned.
PublishVehicle ==
    /\ upc = "body"
    /\ impl = "vehicle_gateway"
    /\ IF IsNone(request.sensor_data)
       THEN /\ ures' = [raised |-> "AttributeError"]
            /\ sinkCalls' = sinkCalls
       ELSE LET data == DictExcludeNone(Val(request.sensor_data))
                sink == SinkFor(request.platform)
            IN  IF sink = "none"
                THEN /\ ures' = [text |-> <<Lit("Unsupported platform")>>]
                     /\ sinkCalls' = sinkCalls
                ELSE /\ sinkCalls' = Append(sinkCalls, SinkCall(sink, request, data))
                     /\ ures' = [text |-> SinkReturn(SinkCall(sink, request, data))]
    /\ upc' = "done"
    /\ UNCHANGED <<impl, via, request>>
    /\ OnlyPublish

NextPublish ==
    \/ ValidateAccept
    \/ ValidateReject
    \/ PublishDemo
    \/ PublishVehicle

(***************************************************************************)
(* publish_telemetry (vehicle_gateway.py)                                  *)
(***************************************************************************)
ProtocolInputs == {"mqtt", "http", "coap"}
TelemetryPlatforms == {"thingspeak", "thingsboard", "custom"}
TelemetryInputs == {"speed=10", "rpm=20", "fuel=5", ""}

\* "Sending {} to <where>".format(telemetry_data)
Sending(data, where) == [text |-> <<Lit("Sending "), Lit(data), Lit(where)>>]

OnlyTelemetry == UNCHANGED <<decVars, busVars, prbVars, eliVars, pubVars>>

InitTelemetry ==
    /\ protocol \in ProtocolInputs
    /\ platform \in TelemetryPlatforms
    /\ telemetry_data \in TelemetryInputs
    /\ resp = None
    /\ tpc = "if_mqtt"
    /\ tres = Unset

IdleTelemetry ==
    /\ protocol = "mqtt"
    /\ platform = "custom"
    /\ telemetry_data = ""
    /\ resp = None
    /\ tpc = "idle"
    /\ tres = Unset

\* if protocol == "mqtt": resp is bound by the platform
IfMqtt ==
    /\ tpc = "if_mqtt"
    /\ resp' = IF protocol # "mqtt" THEN resp
               ELSE IF platform = "thingspeak"
               THEN Some(Sending(telemetry_data, " to thingspeak using mqtt"))
               ELSE IF platform = "thingsboard"
               THEN Some(Sending(telemetry_data, " to thingsboard using mqtt"))
               ELSE Some(Sending(telemetry_data, " to custom mqtt broker "))
    /\ tpc' = "if_http"
    /\ UNCHANGED <<protocol, platform, telemetry_data, tres>>
    /\ OnlyTelemetry

\* if protocol == "http": all three branches bind the same text
IfHttp ==
    /\ tpc = "if_http"
    /\ resp' = IF protocol # "http" THEN resp
               ELSE Some(Sending(telemetry_data, " to thingspeak using http"))
    /\ tpc' = "return"
    /\ UNCHANGED <<protocol, platform, telemetry_data, tres>>
    /\ OnlyTelemetry

\* return resp: a local never bound raises UnboundLocalError
TelemetryReturn ==
    /\ tpc = "return"
    /\ tres' = IF IsNone(resp) THEN [raised |-> "UnboundLocalError"] ELSE Val(resp)
    /\ tpc' = "done"
    /\ UNCHANGED <<protocol, platform, telemetry_data, resp>>
    /\ OnlyTelemetry

NextTelemetry == IfMqtt \/ IfHttp \/ TelemetryReturn

(***************************************************************************)
(* The specifications, one per tool.                                       *)
(***************************************************************************)
StartDecode ==
    InitDecode /\ IdleBus /\ IdleProbe /\ IdleElicit /\ IdlePublish /\ IdleTelemetry
SpecDecode == StartDecode /\ [][NextDecode]_vars
StartBus ==
    IdleDecode /\ InitBus /\ IdleProbe /\ IdleElicit /\ IdlePublish /\ IdleTelemetry
SpecBus == StartBus /\ [][NextBus]_vars
StartProbe ==
    IdleDecode /\ IdleBus /\ InitProbe /\ IdleElicit /\ IdlePublish /\ IdleTelemetry
SpecProbe == StartProbe /\ [][NextProbe]_vars
StartElicit ==
    IdleDecode /\ IdleBus /\ IdleProbe /\ InitElicit /\ IdlePublish /\ IdleTelemetry
SpecElicit == StartElicit /\ [][NextElicit]_vars
StartPublish ==
    IdleDecode /\ IdleBus /\ IdleProbe /\ IdleElicit /\ InitPublish /\ IdleTelemetry
SpecPublish == StartPublish /\ [][NextPublish]_vars
StartTelemetry ==
    IdleDecode /\ IdleBus /\ IdleProbe /\ IdleElicit /\ IdlePublish /\ InitTelemetry
SpecTelemetry == StartTelemetry /\ [][NextTelemetry]_vars

(***************************************************************************)
(* Reading the tools' return values as the outcomes the specification      *)
(* names.                                                                  *)
(***************************************************************************)
FieldOfLabel(label) ==
    CASE label = "Speed is " -> "speed"
      [] label = "RPM is " -> "rpm"
      [] label = "Fuel level is " -> "fuel"
      [] OTHER -> "unknown"
FieldOfId(id) ==
    CASE id = ID_SPEED -> "speed"
      [] id = ID_RPM -> "rpm"
      [] id = ID_FUEL -> "fuel"
      [] OTHER -> "none"

\* The reading a JSON object text holds: key -> value.
JsonFields(pairs) ==
    [k \in {pairs[i].key : i \in 1 .. Len(pairs)} |->
        (CHOOSE q \in {pairs[i] : i \in 1 .. Len(pairs)} : q.key = k).value]

DecodedResult(res) ==
    IF "raised" \in DOMAIN res THEN [kind |-> "Raised", error |-> res.raised]
    ELSE IF "status" \in DOMAIN res THEN [kind |-> "ReadTimeout"]
    ELSE IF "json" \in DOMAIN res
    THEN [kind |-> "CompositeReading", fields |-> JsonFields(res.json)]
    ELSE IF "value" \in DOMAIN res
    THEN [kind |-> "SingleValue", field |-> FieldOfLabel(res.text), value |-> res.value]
    ELSE IF res = [text |-> "Invalid CAN Frame"] THEN [kind |-> "Unrecognized"]
    ELSE [kind |-> "Pending"]

Decoded == dpc = "done" /\ ~IsNone(msg)
KnownIds == {ID_COMPOSITE, ID_SPEED, ID_RPM, ID_FUEL}

\* C1: a decoded frame with identifier 0x101, 0x102 or 0x103 and at least one
\* payload byte yields the single field speed, rpm or fuel with the value of byte
\* 0; a frame whose identifier is none of 0x100..0x103 yields Unrecognized,
\* whatever its payload.
C1_SingleValueOrUnrecognized ==
    Decoded =>
        LET m == Val(msg)
        IN  /\ (m.arbitration_id \in {ID_SPEED, ID_RPM, ID_FUEL} /\ Len(m.data) >= 1)
                => DecodedResult(dres) =
                       [kind |-> "SingleValue", field |-> FieldOfId(m.arbitration_id),
                        value |-> m.data[1]]
            /\ m.arbitration_id \notin KnownIds
                => DecodedResult(dres) = [kind |-> "Unrecognized"]

C1_Witness ==
    /\ Decoded
    /\ Val(msg) = [arbitration_id |-> ID_RPM, data |-> <<20, 5>>]
    /\ DecodedResult(dres) = [kind |-> "SingleValue", field |-> "rpm", value |-> 20]

\* C2: a frame with identifier 0x100 and fewer than 3 payload bytes makes the
\* decode return the MalformedFrame outcome: no reading, and no payload index at
\* or past the payload's length is read.
C2_ShortCompositeIsMalformed ==
    (Decoded /\ Val(msg).arbitration_id = ID_COMPOSITE /\ Len(Val(msg).data) < 3)
        => /\ "raised" \notin DOMAIN dres
           /\ DecodedResult(dres).kind = "MalformedFrame"

\* C8: a frame with identifier 0x100 and at least 3 payload bytes decodes to the
\* composite reading speed = byte 0, rpm = byte 1, fuel = byte 2 and no other
\* field, whatever the bytes after index 2 are.
C8_CompositeReading ==
    (Decoded /\ Val(msg).arbitration_id = ID_COMPOSITE /\ Len(Val(msg).data) >= 3)
        => DecodedResult(dres) =
               [kind |-> "CompositeReading",
                fields |-> [speed |-> Val(msg).data[1], rpm |-> Val(msg).data[2],
                            fuel |-> Val(msg).data[3]]]

C8_Witness ==
    /\ Decoded
    /\ Val(msg) = [arbitration_id |-> ID_COMPOSITE, data |-> <<10, 20, 5, 255>>]
    /\ DecodedResult(dres).kind = "CompositeReading"
    /\ DecodedResult(dres).fields = [speed |-> 10, rpm |-> 20, fuel |-> 5]

\* C4: at most one invocation is inside can_bus.recv at any time.
C4_OneOutstandingReceive == Cardinality({c \in Calls : InRecv(c)}) <= 1

\* The prompts of the required fields, in declared order.
Declared ==
    <<[key |-> "platform", prompt |-> PROMPT_PLATFORM],
      [key |-> "target", prompt |-> PROMPT_TARGET],
      [key |-> "sensor_data", prompt |-> PROMPT_SENSOR_DATA]>>
RECURSIVE PromptsFrom(_, _)
PromptsFrom(i, given) ==
    IF i > Len(Declared) THEN <<>>
    ELSE IF Declared[i].key \in given THEN PromptsFrom(i + 1, given)
    ELSE <<Declared[i].prompt>> \o PromptsFrom(i + 1, given)

\* C6: for task publish_sensor_data and every set of provided field names,
\* missing_parameters is the prompts of the required fields not provided, in the
\* order platform, target, sensor_data, and complete is true exactly when that
\* list is empty.
C6_ElicitPrompts ==
    (epc = "done" /\ task = "publish_sensor_data")
        => /\ eres.missing_parameters = PromptsFrom(1, params)
           /\ eres.complete = (eres.missing_parameters = <<>>)
           /\ eres.task = task

C6_Witness ==
    /\ epc = "done"
    /\ task = "publish_sensor_data"
    /\ params = {"target", "api_key"}
    /\ eres.missing_parameters = <<PROMPT_PLATFORM, PROMPT_SENSOR_DATA>>
    /\ eres.complete = FALSE

\* C5: discover_protocols never raises; when it has returned, all eight probes
\* were attempted whatever failed before, every tag is in the returned list at
\* most once, and a tag is in it exactly when its probe succeeded; two
\* consecutive calls in which every probe failed both return no protocol.
C5_DiscoveryTolerant ==
    /\ ppc # "raised"
    /\ ppc = "done"
        => /\ attempted = NumProbes
           /\ \A t \in BagToSet(pres) : CopiesIn(t, pres) = 1
           /\ BagToSet(pres) = succeeded
           /\ (allFailed => pres = EmptyBag)
           /\ (allFailed /\ prevAllFailed /\ ncalls > 1) => prevProtocols = EmptyBag

C5_Witness ==
    /\ ppc = "done"
    /\ ncalls = 2
    /\ prevAllFailed
    /\ prevProtocols = EmptyBag
    /\ someFailed
    /\ supported = <<"openapi-rest", "openapi-rest", "coap">>
    /\ BagToSet(pres) = {"openapi-rest", "coap"}

Absent(r) == {q \in {"platform", "target", "sensor_data"} : IsNone(r[q])}
Finished == upc \in {"done", "rejected"}
SeqToSet(q) == {q[i] : i \in 1 .. Len(q)}

\* C3: a publish request of iot_demo with some of platform, target, sensor_data
\* absent is not rejected by the request model and returns needs_elicitation
\* naming exactly the absent fields, with no sink reached.
C3_NeedsElicitation ==
    (impl = "iot_demo" /\ Finished /\ Absent(request) # {})
        => /\ upc # "rejected"
           /\ "status" \in DOMAIN ures
           /\ ures.status = "needs_elicitation"
           /\ SeqToSet(ures.missing_parameters) = Absent(request)
           /\ sinkCalls = <<>>

\* The text a platform is named by, compared without case.
Lower(t) ==
    CASE t = "ThingsBoard" -> "thingsboard"
      [] t = "ThingSpeak" -> "thingspeak"
      [] OTHER -> t
Message(res) ==
    IF "message" \in DOMAIN res THEN res.message
    ELSE IF "text" \in DOMAIN res THEN res.text
    ELSE <<>>
References(m, t) ==
    \E i \in 1 .. Len(m) : "text" \in DOMAIN m[i] /\ Lower(m[i].text) = t

\* C7: in both files, a publish request with platform, target and sensor_data
\* present and platform thingsboard succeeds with a message that references the
\* request's target and the platform name.
C7_ThingsboardConfirmation ==
    (Finished /\ Absent(request) = {} /\ request.platform = Some("thingsboard"))
        => /\ "raised" \notin DOMAIN ures
           /\ References(Message(ures), Val(request.target))
           /\ References(Message(ures), "thingsboard")

Complete == impl = "vehicle_gateway" /\ upc = "done" /\ Absent(request) = {}
OwnSink(q) ==
    CASE q = "thingsboard" -> "send_to_thingsboard"
      [] q = "thingspeak" -> "send_to_thingspeak"
      [] q = "custom_rest" -> "send_to_rest"
      [] q = "custom_mqtt" -> "send_to_mqtt"

C10_RespAlwaysBound ==
    tpc = "done" => /\ "raised" \notin DOMAIN tres
                    /\ "text" \in DOMAIN tres

====
